---- MODULE Spec2Model ----
(***************************************************************************)
(* Study-assistant backend (src/app.py): two SQLite tables (rooms, docs),  *)
(* nine Flask request handlers, one helper that calls the hosted model,    *)
(* and a per-request storage connection kept in flask.g and closed by a    *)
(* teardown callback.                                                      *)
(*                                                                         *)
(* A request occupies a slot.  A handler runs as one step, except          *)
(* create_room, whose SELECT and INSERT are separate statements and hence  *)
(* separate steps; close_connection is the teardown step that follows      *)
(* every handler, whatever way the handler ended.                          *)
(*                                                                         *)
(* Strings that the code only compares or passes on are TLA+ strings.  A   *)
(* text that the code assembles by concatenation is the sequence of the    *)
(* non-empty strings it was assembled from, in order.                      *)
(***************************************************************************)
EXTENDS Integers, Sequences, FiniteSets, TLC

VARIABLES
  rooms,    \* table rooms: sequence of rows [id, room_name], in rowid order
  docs,     \* table docs: sequence of rows [id, room_id, filename, data, mime]
  uploads,  \* history: the (room_id, file) of every upload that returned ok
  issued,   \* history: the (room_name, room_id) pairs /room has returned
  pc,       \* per slot: "idle" | "insert" | "teardown"
  req,      \* per slot: the request being handled
  out,      \* per slot: the outcome of the handler
  g,        \* per slot: flask.g._database of the request (0: not set)
  conns,    \* the storage connections that are open
  nopen     \* per slot: sqlite3.connect calls made by the request

vars == <<rooms, docs, uploads, issued, pc, req, out, g, conns, nopen>>

(***************************************************************************)
(* Bounds of the model.                                                    *)
(***************************************************************************)
MaxRooms == 2
MaxDocs == 2

Slots == {"r1", "r2"}
Main == "r1"

(***************************************************************************)
(* Python / JSON values.                                                   *)
(***************************************************************************)
Missing == [t |-> "missing"]          \* the key is not in the request
Null == [t |-> "null"]                \* None
S(s) == [t |-> "str", s |-> s]
I(n) == [t |-> "int", n |-> n]

\* bool(v)
Truthy(v) ==
  CASE v.t = "str" -> v.s # ""
    [] v.t = "int" -> v.n # 0
    [] v.t = "file" -> v.filename # ""
    [] OTHER -> FALSE

\* not v, as in "if not question:"
IsBlankOnlyNone(v) == v = Null

IsBlank(v) == ~Truthy(v)

\* a or b
Or(a, b) == IF Truthy(a) THEN a ELSE b

\* d.get(key)
Get(v) == IF v = Missing THEN Null ELSE v

\* d.get(key, default)
GetD(v, default) == IF v = Missing THEN default ELSE v

\* A text is the sequence of the non-empty strings concatenated into it.
Text(s) == IF s = "" THEN <<>> ELSE <<s>>

DigitStrings == <<"0", "1", "2", "3", "4", "5", "6", "7", "8", "9">>

IsIntText(s) == \E i \in 1..Len(DigitStrings) : DigitStrings[i] = s

IntOfText(s) == (CHOOSE i \in 1..Len(DigitStrings) : DigitStrings[i] = s) - 1

\* str(n) inside an f-string
StrOfInt(n) == DigitStrings[n + 1]

\* int(v): [ok, n]
PyInt(v) ==
  CASE v.t = "int" -> [ok |-> TRUE, n |-> v.n]
    [] v.t = "str" /\ IsIntText(v.s) -> [ok |-> TRUE, n |-> IntOfText(v.s)]
    [] OTHER -> [ok |-> FALSE, n |-> 0]

(***************************************************************************)
(* Storage.                                                                *)
(***************************************************************************)
\* INTEGER PRIMARY KEY AUTOINCREMENT
NextRowId(table) == IF table = <<>> THEN 1 ELSE table[Len(table)].id + 1

\* A value bound to, or compared with, the INTEGER column docs.room_id.
IntegerAffinity(v) ==
  IF v.t = "str" /\ IsIntText(v.s) THEN I(IntOfText(v.s)) ELSE v

\* column = ?
SqlEq(a, b) == a # Null /\ b # Null /\ a = b

\* SELECT id FROM rooms WHERE room_name = ?  (0: no row)
RoomLookupAlwaysMisses(name) == 0

RoomLookup(name) ==
  IF \E i \in 1..Len(rooms) : rooms[i].room_name = name
  THEN rooms[CHOOSE i \in 1..Len(rooms) : rooms[i].room_name = name].id
  ELSE 0

\* Part.from_bytes(bytes=..., mime_type=...)
PartFromBytes(bytes, mime) == [kind |-> "part", bytes |-> bytes, mime_type |-> mime]

TextBlock(text) == [kind |-> "text", text |-> text]

RECURSIVE PartsOf(_)
PartsOf(rows) ==
  IF rows = <<>> THEN <<>>
  ELSE <<PartFromBytes(Head(rows).data, Head(rows).mime)>> \o PartsOf(Tail(rows))

get_room_parts_any_room(room_id) == PartsOf(docs)

get_room_parts_or_null(room_id) ==
  LET Match(r) == r.room_id = Null \/ SqlEq(r.room_id, IntegerAffinity(room_id))
  IN  PartsOf(SelectSeq(docs, Match))

get_room_parts(room_id) ==
  LET Match(r) == SqlEq(r.room_id, IntegerAffinity(room_id))
  IN  PartsOf(SelectSeq(docs, Match))

(***************************************************************************)
(* The storage connection of a request (get_db, close_connection).         *)
(***************************************************************************)
ConnIds == 1..Cardinality(Slots)

\* sqlite3.connect(DB): a connection object no live request holds.
NewConn(r) ==
  CHOOSE c \in ConnIds :
    /\ c \notin conns
    /\ \A s \in Slots \ {r} : g[s] # c
    /\ \A b \in ConnIds :
         (b \notin conns /\ \A s \in Slots \ {r} : g[s] # b) => c <= b

\* get_db() with g._database = cur: the connection, and whether it was opened now.
get_db(r, cur) ==
  IF cur = 0 THEN [db |-> NewConn(r), connected |-> TRUE]
             ELSE [db |-> cur, connected |-> FALSE]

\* The request runs in a new application context and calls get_db().
UseDb(r) ==
  LET d == get_db(r, 0)
  IN  /\ g' = [g EXCEPT ![r] = d.db]
      /\ conns' = conns \cup {d.db}
      /\ nopen' = [nopen EXCEPT ![r] = IF d.connected THEN 1 ELSE 0]

\* The request runs in a new application context and never calls get_db().
NoDb(r) ==
  /\ g' = [g EXCEPT ![r] = 0]
  /\ conns' = conns
  /\ nopen' = [nopen EXCEPT ![r] = 0]

\* The connections left open once the teardown callback has run.
ConnsAfterTeardownLeak(r) == conns

ConnsAfterTeardown(r) == IF g[r] # 0 THEN conns \ {g[r]} ELSE conns

(***************************************************************************)
(* Outcomes of a handler.                                                  *)
(***************************************************************************)
NoReq == [ep |-> "none"]
NoOut == [code |-> 0]

\* return jsonify(body), code
Resp(code, body, calls) ==
  [code |-> code, body |-> body, escaped |-> FALSE, calls |-> calls]

\* An exception leaves the handler: the framework answers 500 with a page.
Uncaught(exc, calls) ==
  [code |-> 500, body |-> [html |-> exc], escaped |-> TRUE, calls |-> calls]

Finish(r, d, o) ==
  /\ pc' = [pc EXCEPT ![r] = "teardown"]
  /\ req' = [req EXCEPT ![r] = d]
  /\ out' = [out EXCEPT ![r] = o]

ModelText == "model text"
ModelError == "model call failed"

\* call_gemini(contents): one generate_content request; it returns or raises.
call_gemini(contents, ok) ==
  [ok |-> ok, text |-> ModelText, exc |-> ModelError, calls |-> <<contents>>]

(***************************************************************************)
(* POST /room                                                              *)
(***************************************************************************)
RoomName(data) == Or(Get(data.room_name), S("default")).s

create_room(r, data) ==
  LET name == RoomName(data)
      row == RoomLookup(name)
  IN  /\ pc[r] = "idle"
      /\ row = 0 =>
           Len(rooms) + Cardinality({s \in Slots : pc[s] = "insert"}) < MaxRooms
      /\ UseDb(r)
      /\ IF row # 0
         THEN /\ Finish(r, data, Resp(200, [room_id |-> row, room_name |-> name], <<>>))
              /\ issued' = issued \cup {<<name, row>>}
         ELSE /\ pc' = [pc EXCEPT ![r] = "insert"]
              /\ req' = [req EXCEPT ![r] = data]
              /\ UNCHANGED <<out, issued>>
      /\ UNCHANGED <<rooms, docs, uploads>>

\* INSERT INTO rooms (room_name) VALUES (?); commit; lastrowid
create_room_insert(r) ==
  LET name == RoomName(req[r])
      id == NextRowId(rooms)
  IN  /\ pc[r] = "insert"
      /\ IF \E i \in 1..Len(rooms) : rooms[i].room_name = name
         THEN \* room_name TEXT UNIQUE
              /\ Finish(r, req[r], Uncaught("IntegrityError", <<>>))
              /\ UNCHANGED <<rooms, issued>>
         ELSE /\ rooms' = Append(rooms, [id |-> id, room_name |-> name])
              /\ Finish(r, req[r], Resp(200, [room_id |-> id, room_name |-> name], <<>>))
              /\ issued' = issued \cup {<<name, id>>}
      /\ UNCHANGED <<docs, uploads, g, conns, nopen>>

(***************************************************************************)
(* POST /upload_pdf                                                        *)
(***************************************************************************)
File(filename, data, mimetype) ==
  [t |-> "file", filename |-> filename, data |-> data, mimetype |-> mimetype]

upload_pdf(r, d) ==
  LET room_id == Get(d.room_id)
      pdf == Get(d.pdf)
  IN  /\ pc[r] = "idle"
      /\ IF IsBlank(pdf)
         THEN /\ NoDb(r)
              /\ Finish(r, d, Resp(400, [error |-> "No PDF uploaded"], <<>>))
              /\ UNCHANGED <<docs, uploads>>
         ELSE LET mime == IF pdf.mimetype # "" THEN pdf.mimetype ELSE "application/pdf"
              IN  /\ Len(docs) < MaxDocs
                  /\ UseDb(r)
                  /\ docs' = Append(docs, [id |-> NextRowId(docs),
                                            room_id |-> IntegerAffinity(room_id),
                                            filename |-> pdf.filename,
                                            data |-> pdf.data,
                                            mime |-> mime])
                  /\ uploads' = Append(uploads, [room_id |-> room_id, pdf |-> pdf])
                  /\ Finish(r, d, Resp(200, [status |-> "ok", filename |-> pdf.filename], <<>>))
      /\ UNCHANGED <<rooms, issued>>

(***************************************************************************)
(* Prompt texts.                                                           *)
(***************************************************************************)
PdfPreamble ==
  "You are allowed to use ONLY the uploaded documents as source. Answer concisely. Include JSON 'citations' array where each item has fields: page, excerpt. If answer is not found inside uploaded documents, say so clearly. "

\* The level clause of /ask_pdf ("": none).
PdfLevelClauseIgnoringCase(level) ==
  CASE level \in {S("child"), S("Child")} -> "Explain like I'm 10. "
    [] level = S("exam") -> "Explain concisely, exam-focused. "
    [] level = S("professor") -> "Give an in-depth technical explanation. "
    [] OTHER -> ""

PdfLevelClause(level) ==
  CASE level = S("child") -> "Explain like I'm 10. "
    [] level = S("exam") -> "Explain concisely, exam-focused. "
    [] level = S("professor") -> "Give an in-depth technical explanation. "
    [] OTHER -> ""

\* The level clause of /ask_text ("": none).
TextLevelClause(level) ==
  CASE level = S("child") -> "Explain like I'm 10. "
    [] level = S("exam") -> "Explain concisely, exam-focused. "
    [] level = S("professor") -> "Explain in-depth like a professor. "
    [] OTHER -> ""

\* instruction, then user_prompt = instruction + "\nQuestion: " + question
PdfInstruction(level) == <<PdfPreamble>> \o Text(PdfLevelClause(level))

PdfUserPrompt(level, question) ==
  PdfInstruction(level) \o <<"\nQuestion: ">> \o Text(question)

\* prompt = instr + question
TextPrompt(level, question) == Text(TextLevelClause(level)) \o Text(question)

ImagePrompt(question) == <<"Analyze the image and then answer: ">> \o Text(question)

VoicePrompt == <<"Transcribe and answer any question included, or summarize.">>

FlashcardsPrompt(num) ==
  <<"From the uploaded documents generate up to ", StrOfInt(num),
    " flashcards as JSON format: {\"cards\":[{\"q\":\"...\",\"a\":\"...\",\"page\":n}]} Use page citations when possible.">>

SummarizePrompt ==
  <<"Summarize the uploaded materials into key points, formulas, and a short study checklist. Output JSON: {summary: '...', key_points: [...], formulas: [...]}">>

QuizPrompt(num) ==
  <<"From uploaded documents, generate ", StrOfInt(num),
    " quiz questions with answers and hints as JSON: {\"quiz\":[{\"q\":\"...\",\"choices\":[\"...\"],\"ans\":\"...\",\"hint\":\"...\"}]}">>

\* contents = []; contents.extend(parts); contents.append({"text": prompt})
ContentsTextFirst(parts, prompt) == <<TextBlock(prompt)>> \o parts

Contents(parts, prompt) == parts \o <<TextBlock(prompt)>>

\* The documents a handler loads: get_room_parts(room_id) if room_id else [].
RoomParts(room_id) == IF Truthy(room_id) THEN get_room_parts(room_id) ELSE <<>>

DbIf(r, used) == IF used THEN UseDb(r) ELSE NoDb(r)

ReadOnly == UNCHANGED <<rooms, docs, uploads, issued>>

(***************************************************************************)
(* Data URLs and base64.                                                   *)
(***************************************************************************)
UrlHeaders == {"data:image/png;base64", "data:audio/webm;base64"}
Base64Texts == {"aGk=", "abc"}

\* header, b64 = s.split(",", 1) if "," in s else (None, s)
AfterComma(s) ==
  IF \E h \in UrlHeaders, b \in Base64Texts : s = h \o "," \o b
  THEN CHOOSE b \in Base64Texts : \E h \in UrlHeaders : s = h \o "," \o b
  ELSE s

\* base64.b64decode(b64): [ok, bytes]; "abc" has incorrect padding
B64Decode(b64) ==
  IF b64 = "aGk=" THEN [ok |-> TRUE, bytes |-> "hi"]
                  ELSE [ok |-> FALSE, bytes |-> ""]

(***************************************************************************)
(* The model-backed endpoints.                                             *)
(***************************************************************************)
\* POST /ask_pdf
ask_pdf(r, d, ok) ==
  LET room_id == Get(d.room_id)
      question == Or(Or(Get(d.question), Get(d.prompt)), S(""))
      level == Or(Get(d.level), S("default"))
  IN  /\ pc[r] = "idle"
      /\ ReadOnly
      /\ IF IsBlank(question)
         THEN /\ NoDb(r)
              /\ Finish(r, d, Resp(400, [error |-> "No question provided"], <<>>))
         ELSE LET contents == Contents(RoomParts(room_id), PdfUserPrompt(level, question.s))
                  resp == call_gemini(contents, ok)
              IN  /\ DbIf(r, Truthy(room_id))
                  /\ IF resp.ok
                     THEN Finish(r, d, Resp(200, [answer |-> resp.text], resp.calls))
                     ELSE Finish(r, d, Resp(500, [error |-> resp.exc], resp.calls))

\* POST /ask_text
ask_text(r, d, ok) ==
  LET question == GetD(d.question, S(""))
      level == GetD(d.level, S("default"))
  IN  /\ pc[r] = "idle"
      /\ ReadOnly
      /\ NoDb(r)
      /\ IF IsBlank(question)
         THEN Finish(r, d, Resp(400, [error |-> "No question"], <<>>))
         ELSE LET resp == call_gemini(<<TextBlock(TextPrompt(level, question.s))>>, ok)
              IN  IF resp.ok
                  THEN Finish(r, d, Resp(200, [answer |-> resp.text], resp.calls))
                  ELSE Finish(r, d, Uncaught(resp.exc, resp.calls))

\* POST /ask_image
ask_image(r, d, ok) ==
  LET image_b64 == Get(d.image)
      question == GetD(d.question, S(""))
  IN  /\ pc[r] = "idle"
      /\ ReadOnly
      /\ NoDb(r)
      /\ IF IsBlank(image_b64)
         THEN Finish(r, d, Resp(400, [error |-> "No image"], <<>>))
         ELSE LET img == B64Decode(AfterComma(image_b64.s))
                  img_part == PartFromBytes(img.bytes, "image/png")
                  resp == call_gemini(<<img_part, TextBlock(ImagePrompt(question.s))>>, ok)
              IN  IF ~img.ok
                  THEN Finish(r, d, Uncaught("binascii.Error", <<>>))
                  ELSE IF resp.ok
                  THEN Finish(r, d, Resp(200, [answer |-> resp.text], resp.calls))
                  ELSE Finish(r, d, Uncaught(resp.exc, resp.calls))

\* POST /ask_voice
ask_voice(r, d, ok) ==
  LET audio_b64 == Get(d.audio)
  IN  /\ pc[r] = "idle"
      /\ ReadOnly
      /\ NoDb(r)
      /\ IF IsBlank(audio_b64)
         THEN Finish(r, d, Resp(400, [error |-> "No audio"], <<>>))
         ELSE LET audio == B64Decode(AfterComma(audio_b64.s))
                  audio_part == PartFromBytes(audio.bytes, "audio/webm")
                  resp == call_gemini(<<audio_part, TextBlock(VoicePrompt)>>, ok)
              IN  IF ~audio.ok
                  THEN Finish(r, d, Uncaught("binascii.Error", <<>>))
                  ELSE IF resp.ok
                  THEN Finish(r, d, Resp(200, [answer |-> resp.text], resp.calls))
                  ELSE Finish(r, d, Uncaught(resp.exc, resp.calls))

\* POST /flashcards
flashcards(r, d, ok) ==
  LET room_id == Get(d.room_id)
      num == PyInt(GetD(d.num, I(8)))
  IN  /\ pc[r] = "idle"
      /\ ReadOnly
      /\ IF ~num.ok
         THEN /\ NoDb(r)
              /\ Finish(r, d, Uncaught("ValueError", <<>>))
         ELSE LET contents == Contents(RoomParts(room_id), FlashcardsPrompt(num.n))
                  resp == call_gemini(contents, ok)
              IN  /\ DbIf(r, Truthy(room_id))
                  /\ IF resp.ok
                     THEN Finish(r, d, Resp(200, [flashcards_raw |-> resp.text], resp.calls))
                     ELSE Finish(r, d, Uncaught(resp.exc, resp.calls))

\* POST /summarize
summarize(r, d, ok) ==
  LET room_id == Get(d.room_id)
      contents == Contents(RoomParts(room_id), SummarizePrompt)
      resp == call_gemini(contents, ok)
  IN  /\ pc[r] = "idle"
      /\ ReadOnly
      /\ DbIf(r, Truthy(room_id))
      /\ IF resp.ok
         THEN Finish(r, d, Resp(200, [summary_raw |-> resp.text], resp.calls))
         ELSE Finish(r, d, Uncaught(resp.exc, resp.calls))

\* POST /quiz
quiz(r, d, ok) ==
  LET room_id == Get(d.room_id)
      difficulty == GetD(d.difficulty, S("mixed"))
      num == PyInt(GetD(d.num, I(5)))
  IN  /\ pc[r] = "idle"
      /\ ReadOnly
      /\ IF ~num.ok
         THEN /\ NoDb(r)
              /\ Finish(r, d, Uncaught("ValueError", <<>>))
         ELSE LET contents == Contents(RoomParts(room_id), QuizPrompt(num.n))
                  resp == call_gemini(contents, ok)
              IN  /\ DbIf(r, Truthy(room_id))
                  /\ IF resp.ok
                     THEN Finish(r, d, Resp(200, [quiz_raw |-> resp.text], resp.calls))
                     ELSE Finish(r, d, Uncaught(resp.exc, resp.calls))

\* close_connection, then the application context (and its g) is dropped.
CloseConnection(r) ==
  /\ pc[r] = "teardown"
  /\ conns' = ConnsAfterTeardown(r)
  /\ g' = [g EXCEPT ![r] = 0]
  /\ nopen' = [nopen EXCEPT ![r] = 0]
  /\ pc' = [pc EXCEPT ![r] = "idle"]
  /\ req' = [req EXCEPT ![r] = NoReq]
  /\ out' = [out EXCEPT ![r] = NoOut]
  /\ UNCHANGED <<rooms, docs, uploads, issued>>

(***************************************************************************)
(* Requests.                                                               *)
(***************************************************************************)
F0 == File("", "", "application/pdf")          \* a file part with no file chosen
F1 == File("notes.pdf", "pdf-1", "application/pdf")
F2 == File("scan.bin", "bin-2", "")

RoomData(names) == {[ep |-> "room", room_name |-> n] : n \in names}

UploadData(ids, files) ==
  {[ep |-> "upload_pdf", room_id |-> i, pdf |-> f] : i \in ids, f \in files}

AskPdfData(ids, questions, prompts, levels) ==
  {[ep |-> "ask_pdf", room_id |-> i, question |-> q, prompt |-> p, level |-> l] :
     i \in ids, q \in questions, p \in prompts, l \in levels}

AskTextData(questions, levels) ==
  {[ep |-> "ask_text", question |-> q, level |-> l] : q \in questions, l \in levels}

AskImageData(images, questions) ==
  {[ep |-> "ask_image", image |-> i, question |-> q] : i \in images, q \in questions}

AskVoiceData(audios) == {[ep |-> "ask_voice", audio |-> a] : a \in audios}

FlashcardsData(ids, nums) ==
  {[ep |-> "flashcards", room_id |-> i, num |-> n] : i \in ids, n \in nums}

SummarizeData(ids) == {[ep |-> "summarize", room_id |-> i] : i \in ids}

QuizData(ids, nums, difficulties) ==
  {[ep |-> "quiz", room_id |-> i, num |-> n, difficulty |-> x] :
     i \in ids, n \in nums, x \in difficulties}

Init ==
  /\ rooms = <<>>
  /\ docs = <<>>
  /\ uploads = <<>>
  /\ issued = {}
  /\ pc = [r \in Slots |-> "idle"]
  /\ req = [r \in Slots |-> NoReq]
  /\ out = [r \in Slots |-> NoOut]
  /\ g = [r \in Slots |-> 0]
  /\ conns = {}
  /\ nopen = [r \in Slots |-> 0]

(***************************************************************************)
(* Spec: requests handled one after the other.                             *)
(***************************************************************************)
FormIds == {Missing, S("1"), S("2")}
Files == {Missing, F0, F1, F2}
Nums == {Missing, I(0), S("3"), S("x")}

Next ==
  \/ \E d \in RoomData({Missing, S(""), S("a"), S("b")}) : create_room(Main, d)
  \/ create_room_insert(Main)
  \/ \E d \in UploadData(FormIds, Files) : upload_pdf(Main, d)
  \/ \E d \in AskPdfData({Missing, S("1"), I(2)}, {Missing, S("q")},
                         {Missing, S("p")}, {S("child")}),
        ok \in BOOLEAN : ask_pdf(Main, d, ok)
  \/ \E d \in AskTextData({Missing, S("q")}, {S("exam")}),
        ok \in BOOLEAN : ask_text(Main, d, ok)
  \/ \E d \in AskImageData({Missing, S(""), S("aGk="), S("data:image/png;base64,abc")},
                           {S("q")}),
        ok \in BOOLEAN : ask_image(Main, d, ok)
  \/ \E d \in AskVoiceData({Missing, S("data:audio/webm;base64,aGk="), S("abc")}),
        ok \in BOOLEAN : ask_voice(Main, d, ok)
  \/ \E d \in FlashcardsData({Missing, I(1)}, Nums),
        ok \in BOOLEAN : flashcards(Main, d, ok)
  \/ \E d \in SummarizeData({Missing, I(1), I(2), I(0)}),
        ok \in BOOLEAN : summarize(Main, d, ok)
  \/ \E d \in QuizData({I(2), I(0)}, {Missing, I(0), S("x")}, {S("hard")}),
        ok \in BOOLEAN : quiz(Main, d, ok)
  \/ CloseConnection(Main)

Spec == Init /\ [][Next]_vars

(***************************************************************************)
(* SpecPrompt: the prompts of /ask_pdf and /ask_text over every level and  *)
(* question, with the tables as Init leaves them.                          *)
(***************************************************************************)
Levels ==
  {Missing, Null, S(""), S("child"), S("exam"), S("professor"), S("Child"),
   S("default"), I(1)}
Questions == {Missing, S(""), S("What is mitosis?"), S("Explain like I'm 10. ")}

NextPrompt ==
  \/ \E d \in AskPdfData({Missing}, Questions, {Missing, S("exam")}, Levels),
        ok \in BOOLEAN : ask_pdf(Main, d, ok)
  \/ \E d \in AskTextData(Questions, Levels),
        ok \in BOOLEAN : ask_text(Main, d, ok)
  \/ CloseConnection(Main)

SpecPrompt == Init /\ [][NextPrompt]_vars

(***************************************************************************)
(* SpecConc: requests handled concurrently, one thread per slot.           *)
(***************************************************************************)
NextConc ==
  \E r \in Slots :
    \/ \E d \in RoomData({Missing, S("a")}) : create_room(r, d)
    \/ create_room_insert(r)
    \/ \E d \in UploadData({S("1")}, {Missing, F1}) : upload_pdf(r, d)
    \/ \E d \in AskPdfData({S("1")}, {Missing, S("q")}, {Missing}, {Missing}),
          ok \in BOOLEAN : ask_pdf(r, d, ok)
    \/ \E d \in AskTextData({S("q")}, {Missing}),
          ok \in BOOLEAN : ask_text(r, d, ok)
    \/ \E d \in AskImageData({S("abc")}, {Missing}),
          ok \in BOOLEAN : ask_image(r, d, ok)
    \/ \E d \in AskVoiceData({S("aGk=")}), ok \in BOOLEAN : ask_voice(r, d, ok)
    \/ \E d \in FlashcardsData({I(1)}, {S("x"), I(0)}),
          ok \in BOOLEAN : flashcards(r, d, ok)
    \/ \E d \in SummarizeData({I(1)}), ok \in BOOLEAN : summarize(r, d, ok)
    \/ \E d \in QuizData({I(1)}, {Missing}, {Missing}),
          ok \in BOOLEAN : quiz(r, d, ok)
    \/ CloseConnection(r)

SpecConc == Init /\ [][NextConc]_vars

(***************************************************************************)
(* Properties.                                                             *)
(***************************************************************************)
\* The handler of slot r has returned (or raised) and its outcome is in out[r].
Returned(r) == pc[r] = "teardown"

\* What the uploads made so far put under room id k, as content blocks.
RECURSIVE UploadedParts(_, _)
UploadedParts(us, k) ==
  IF us = <<>> THEN <<>>
  ELSE LET u == Head(us)
           same == /\ u.room_id # Null
                   /\ IntegerAffinity(u.room_id) = IntegerAffinity(k)
           mime == IF u.pdf.mimetype = "" THEN "application/pdf" ELSE u.pdf.mimetype
       IN  (IF same THEN <<[kind |-> "part", bytes |-> u.pdf.data, mime_type |-> mime]>>
                    ELSE <<>>)
           \o UploadedParts(Tail(us), k)

RoomKeys == {S("1"), S("2"), I(1), I(2), I(3), I(0), S("x")}

\* C1: /room is an idempotent get-or-create: every call returns 200; the calls
\* for one name all return one id and the calls for two names return two ids;
\* the table holds exactly one row per name asked for, carrying the id returned.
C1_RoomGetOrCreate ==
  /\ \A p \in issued, q \in issued : (p[1] = q[1]) <=> (p[2] = q[2])
  /\ \A p \in issued :
       /\ \E i \in 1..Len(rooms) : rooms[i] = [id |-> p[2], room_name |-> p[1]]
       /\ Cardinality({i \in 1..Len(rooms) : rooms[i].room_name = p[1]}) = 1
  /\ Len(rooms) = Cardinality({p[1] : p \in issued})
  /\ \A r \in Slots :
       (Returned(r) /\ req[r].ep = "room") =>
         /\ out[r].code = 200
         /\ <<out[r].body.room_name, out[r].body.room_id>> \in issued

\* A second room exists and a later call for the first name got the first id back.
C1_Witness ==
  \E r \in Slots :
    /\ Returned(r) /\ req[r].ep = "room"
    /\ Len(rooms) = 2
    /\ out[r].code = 200 /\ out[r].body.room_id = 1

\* C2: for every room id, get_room_parts returns exactly the documents uploaded
\* under that id, one block per upload, in upload order, bytes and mime as uploaded.
C2_RoomPartsAreUploads ==
  \A k \in RoomKeys : get_room_parts(k) = UploadedParts(uploads, k)

\* Two different documents uploaded under "1" come back, in order, for room 1.
C2_Witness ==
  get_room_parts(I(1)) =
    <<[kind |-> "part", bytes |-> "bin-2", mime_type |-> "application/pdf"],
      [kind |-> "part", bytes |-> "pdf-1", mime_type |-> "application/pdf"]>>

\* C3 as claimed: a request that lacks any field of its endpoint is answered 400
\* with an error field.
C3_MissingFieldIs400 ==
  \A r \in Slots :
    (Returned(r) /\ \E f \in DOMAIN req[r] \ {"ep"} : req[r][f] = Missing) =>
      (out[r].code = 400 /\ "error" \in DOMAIN out[r].body)

\* The one input each validating handler checks ("" and None count as absent).
Validated(d) ==
  CASE d.ep = "upload_pdf" -> <<Get(d.pdf)>>
    [] d.ep = "ask_pdf" -> <<Or(Get(d.question), Get(d.prompt))>>
    [] d.ep = "ask_text" -> <<Get(d.question)>>
    [] d.ep = "ask_image" -> <<Get(d.image)>>
    [] d.ep = "ask_voice" -> <<Get(d.audio)>>
    [] OTHER -> <<>>

\* C3 amended: a request is answered 400 exactly when its endpoint is one of
\* /upload_pdf, /ask_pdf, /ask_text, /ask_image, /ask_voice and the one input
\* that endpoint validates is absent or empty; the 400 carries an error field.
C3_ValidatedFieldIs400 ==
  \A r \in Slots :
    Returned(r) =>
      /\ out[r].code = 400 <=> \E i \in DOMAIN Validated(req[r]) : ~Truthy(Validated(req[r])[i])
      /\ out[r].code = 400 => ("error" \in DOMAIN out[r].body /\ ~out[r].escaped)

\* /ask_text without a question has been answered 400.
C3_Witness ==
  \E r \in Slots :
    /\ Returned(r) /\ req[r].ep = "ask_text" /\ req[r].question = Missing
    /\ out[r].code = 400

\* C4: every error outcome is a JSON body with an error field and status 400 or
\* 500, and no failure leaves the handler.
C4_ErrorsAreJson ==
  \A r \in Slots :
    (Returned(r) /\ out[r].code >= 400) =>
      /\ out[r].code \in {400, 500}
      /\ ~out[r].escaped
      /\ "error" \in DOMAIN out[r].body

\* C5: the contents /ask_pdf, /flashcards, /summarize and /quiz send are the
\* documents uploaded to the room, in upload order, then one text block; with
\* no room given, or no document in the room, the text block alone.
C5_PartsThenOneText ==
  \A r \in Slots :
    (/\ Returned(r)
     /\ req[r].ep \in {"ask_pdf", "flashcards", "summarize", "quiz"}
     /\ out[r].calls # <<>>) =>
      LET contents == out[r].calls[1]
          n == Len(contents)
          room_id == Get(req[r].room_id)
      IN  /\ n >= 1
          /\ contents[n].kind = "text"
          /\ \A i \in 1..(n - 1) : contents[i].kind = "part"
          /\ SubSeq(contents, 1, n - 1) =
               (IF Truthy(room_id) THEN UploadedParts(uploads, room_id) ELSE <<>>)

\* /ask_pdf has sent two documents and the text block.
C5_Witness ==
  \E r \in Slots :
    /\ Returned(r) /\ req[r].ep = "ask_pdf" /\ out[r].calls # <<>>
    /\ Len(out[r].calls[1]) = 3

ModelBacked ==
  {"ask_pdf", "ask_text", "ask_image", "ask_voice", "flashcards", "summarize", "quiz"}

\* C6: a model-backed request answered 400 makes no model call; any other one,
\* whose num (if it has one) is absent or an integer, makes exactly one.
C6_ExactlyOneCall ==
  \A r \in Slots :
    (/\ Returned(r)
     /\ req[r].ep \in ModelBacked
     /\ ("num" \in DOMAIN req[r] => req[r].num.t \in {"missing", "int"})) =>
      IF out[r].code = 400 THEN out[r].calls = <<>> ELSE Len(out[r].calls) = 1

LevelClauses ==
  {"Explain like I'm 10. ", "Explain concisely, exam-focused. ",
   "Give an in-depth technical explanation. ", "Explain in-depth like a professor. "}

\* C7: in the prompt of /ask_pdf and /ask_text the text before the question
\* holds a level clause exactly when level is "child", "exam" or "professor",
\* that clause being the one fixed for the level, and the prompt ends with the
\* question as the caller gave it.
C7_LevelClause ==
  \A r \in Slots :
    (Returned(r) /\ req[r].ep \in {"ask_pdf", "ask_text"} /\ out[r].calls # <<>>) =>
      LET d == req[r]
          contents == out[r].calls[1]
          text == contents[Len(contents)].text
          asked == IF d.ep = "ask_pdf" /\ ~Truthy(Get(d.question))
                   THEN d.prompt.s ELSE d.question.s
          instr == SubSeq(text, 1, Len(text) - 1)
          found == {i \in 1..Len(instr) : instr[i] \in LevelClauses}
          fixed == CASE d.level = S("child") -> "Explain like I'm 10. "
                     [] d.level = S("exam") -> "Explain concisely, exam-focused. "
                     [] d.level = S("professor") ->
                          IF d.ep = "ask_pdf"
                          THEN "Give an in-depth technical explanation. "
                          ELSE "Explain in-depth like a professor. "
                     [] OTHER -> ""
      IN  /\ text # <<>> /\ text[Len(text)] = asked
          /\ IF d.level \in {S("child"), S("exam"), S("professor")}
             THEN Cardinality(found) = 1 /\ \A i \in found : instr[i] = fixed
             ELSE found = {}

\* /ask_pdf has sent a prompt for level "child".
C7_Witness ==
  \E r \in Slots :
    /\ Returned(r) /\ req[r].ep = "ask_pdf" /\ out[r].calls # <<>>
    /\ req[r].level = S("child") /\ req[r].question = S("What is mitosis?")

\* The stored documents whose room_id is the id of no room.
Orphans ==
  {i \in 1..Len(docs) : \A j \in 1..Len(rooms) : docs[i].room_id # I(rooms[j].id)}

RECURSIVE PartsOfRooms(_)
PartsOfRooms(rs) ==
  IF rs = <<>> THEN 0
  ELSE Len(get_room_parts(I(Head(rs).id))) + PartsOfRooms(Tail(rs))

\* C8: an upload with a file is stored and answered ok whatever its room_id,
\* absent or naming no room; and the queries for the rooms that exist return,
\* together, the stored documents that are not orphans and no other.
C8_OrphanUploads ==
  /\ \A r \in Slots :
       (Returned(r) /\ req[r].ep = "upload_pdf" /\ Truthy(Get(req[r].pdf))) =>
         /\ out[r].code = 200 /\ out[r].body.status = "ok"
         /\ docs # <<>>
         /\ docs[Len(docs)].data = req[r].pdf.data
         /\ docs[Len(docs)].room_id = IntegerAffinity(Get(req[r].room_id))
  /\ PartsOfRooms(rooms) = Len(docs) - Cardinality(Orphans)

\* A room exists, and an upload without room_id has just been stored as an orphan.
C8_Witness ==
  \E r \in Slots :
    /\ Returned(r) /\ req[r].ep = "upload_pdf" /\ req[r].room_id = Missing
    /\ out[r].code = 200
    /\ rooms # <<>>
    /\ Len(docs) \in Orphans

\* C9: under concurrent /room requests no name has two rows, every request
\* completes without error, and the requests for one name return one id.
C9_ConcurrentCreate ==
  /\ \A i \in 1..Len(rooms), j \in 1..Len(rooms) :
       rooms[i].room_name = rooms[j].room_name => i = j
  /\ \A r \in Slots :
       (Returned(r) /\ req[r].ep = "room") => (out[r].code = 200 /\ ~out[r].escaped)
  /\ \A p \in issued, q \in issued : p[1] = q[1] => p[2] = q[2]

\* C10: a request opens at most one connection, holds it open until its
\* teardown, shares it with no other request, and leaves no connection open
\* once it has ended.
C10_ConnectionPerRequest ==
  /\ \A r \in Slots : nopen[r] <= 1
  /\ \A r \in Slots : g[r] # 0 => (g[r] \in conns /\ nopen[r] = 1 /\ pc[r] # "idle")
  /\ \A r \in Slots, s \in Slots : (r # s /\ g[r] # 0) => g[r] # g[s]
  /\ \A c \in conns : \E r \in Slots : pc[r] # "idle" /\ g[r] = c

\* One request has ended after inserting a room; another one, which lost the
\* race, ended with an exception and holds the only open connection.
C10_Witness ==
  \E r \in Slots, s \in Slots :
    /\ pc[r] = "idle" /\ g[r] = 0
    /\ Returned(s) /\ req[s].ep = "room" /\ out[s].escaped
    /\ conns = {g[s]}

====
